---- MODULE Spec2Model ----
(***************************************************************************)
(* cachified-adapter-sqlite: the cache-key builder, the driver adapters'   *)
(* get / set / delete against one three-column table, and the JSON text    *)
(* the adapters write to and read from the value and metadata columns.     *)
(*                                                                         *)
(* Strings are sequences of characters.  A column's text is a sequence of  *)
(* tokens: the punctuation { } : , the quote, the literals null true       *)
(* false, single digits, and the characters of string contents.            *)
(***************************************************************************)
EXTENDS Integers, Sequences, FiniteSets, TLC

(***************************************************************************)
(* Bounds of the model.                                                    *)
(***************************************************************************)
\* ttl and swr given to set range over 0..MaxNum (besides absent, null, Infinity)
MaxNum == 1
\* keys of the key-builder specification have at most this length
MaxKeyLen == 2
\* prefixes of the key-builder specification have at most this length
MaxPrefixLen == 2
\* the clock of the clock specification runs up to this time
MaxTime == 3
\* an entry read back is stored again while its ttl is at most this
MaxTtl == 3

\* the wall clock (Date.now()), which no handler reads
VARIABLE now

(***************************************************************************)
(* JavaScript values.  One record shape for every value:                   *)
(*   t  the type tag, n  the number (or 0/1 for a boolean),                *)
(*   s  the characters of a string (or the name of an error),              *)
(*   f  the fields of an object, in insertion order, as <<name, value>>.   *)
(***************************************************************************)
Undefined == [t |-> "undefined", n |-> 0, s |-> <<>>, f |-> <<>>]
Null == [t |-> "null", n |-> 0, s |-> <<>>, f |-> <<>>]
Bool(b) == [t |-> "boolean", n |-> IF b THEN 1 ELSE 0, s |-> <<>>, f |-> <<>>]
Num(n) == [t |-> "number", n |-> n, s |-> <<>>, f |-> <<>>]
Infinity == [t |-> "infinity", n |-> 0, s |-> <<>>, f |-> <<>>]
Str(s) == [t |-> "string", n |-> 0, s |-> s, f |-> <<>>]
Obj(f) == [t |-> "object", n |-> 0, s |-> <<>>, f |-> f]
ErrorValue(name) == [t |-> "error", n |-> 0, s |-> <<name>>, f |-> <<>>]

\* !v of JavaScript: undefined, null, false, 0 and "" are falsy
Falsy(v) ==
    \/ v.t \in {"undefined", "null"}
    \/ v.t = "boolean" /\ v.n = 0
    \/ v.t = "number" /\ v.n = 0
    \/ v.t = "string" /\ v.s = <<>>

\* obj.name: the value of the last field of that name, undefined when absent
Field(v, name) ==
    LET hits == {i \in 1..Len(v.f) : v.f[i][1] = name}
    IN  IF v.t # "object" \/ hits = {} THEN Undefined
        ELSE v.f[CHOOSE i \in hits : \A j \in hits : j <= i][2]

\* { ...obj, name: val }: a copy of obj's fields with name set to val, in
\* place when obj has the field and appended when it has not
SpreadWith(v, name, val) ==
    LET g == IF v.t = "object" THEN v.f ELSE <<>>
    IN  IF \E i \in 1..Len(g) : g[i][1] = name
        THEN Obj([i \in 1..Len(g) |->
                    IF g[i][1] = name THEN <<name, val>> ELSE g[i]])
        ELSE Obj(Append(g, <<name, val>>))

FieldNames(v) == {v.f[i][1] : i \in 1..Len(v.f)}

(***************************************************************************)
(* JSON.stringify and JSON.parse on token sequences.                       *)
(***************************************************************************)
QUOTE == "\""
DigitSeq == <<"0", "1", "2", "3", "4", "5", "6", "7", "8", "9">>
Digits == {DigitSeq[i] : i \in 1..10}
DigitValue(tok) == (CHOOSE i \in 1..10 : DigitSeq[i] = tok) - 1

RECURSIVE NumberText(_)
NumberText(n) ==
    IF n < 10 THEN <<DigitSeq[n + 1]>>
    ELSE NumberText(n \div 10) \o <<DigitSeq[(n % 10) + 1]>>

RECURSIVE JSONstringify(_)
RECURSIVE StringifyMembers(_, _, _)
\* the members of an object from index i on; a field holding undefined is left out
StringifyMembers(f, i, first) ==
    IF i > Len(f) THEN <<>>
    ELSE IF f[i][2].t = "undefined" THEN StringifyMembers(f, i + 1, first)
    ELSE (IF first THEN <<>> ELSE <<",">>)
         \o <<QUOTE>> \o f[i][1] \o <<QUOTE, ":">> \o JSONstringify(f[i][2])
         \o StringifyMembers(f, i + 1, FALSE)

\* JSON.stringify(v) for a value other than undefined; a non-finite number is
\* written as null
JSONstringify(v) ==
    CASE v.t = "null" -> <<"null">>
      [] v.t = "boolean" -> IF v.n = 1 THEN <<"true">> ELSE <<"false">>
      [] v.t = "number" -> NumberText(v.n)
      [] v.t = "infinity" -> <<"null">>
      [] v.t = "string" -> <<QUOTE>> \o v.s \o <<QUOTE>>
      [] v.t = "object" -> <<"{">> \o StringifyMembers(v.f, 1, TRUE) \o <<"}">>

ParseFail == [v |-> Undefined, ok |-> FALSE, next |-> 0]
ParseOk(v, next) == [v |-> v, ok |-> TRUE, next |-> next]

\* the index of the first quote at or after i, 0 when there is none
ClosingQuote(txt, i) ==
    LET qs == {j \in i..Len(txt) : txt[j] = QUOTE}
    IN  IF qs = {} THEN 0 ELSE CHOOSE j \in qs : \A k \in qs : j <= k

\* the index after the run of digits that starts at i
DigitsEnd(txt, i) ==
    LET stops == {j \in i..Len(txt) : txt[j] \notin Digits}
    IN  IF stops = {} THEN Len(txt) + 1 ELSE CHOOSE j \in stops : \A k \in stops : j <= k

RECURSIVE NumberValue(_, _, _)
NumberValue(txt, i, j) ==
    IF j < i THEN 0 ELSE NumberValue(txt, i, j - 1) * 10 + DigitValue(txt[j])

RECURSIVE ParseValueAt(_, _)
RECURSIVE ParseMembersAt(_, _, _)
\* the members of an object after its opening brace or after a comma
ParseMembersAt(txt, i, acc) ==
    IF i > Len(txt) \/ txt[i] # QUOTE THEN ParseFail
    ELSE LET q == ClosingQuote(txt, i + 1)
         IN  IF q = 0 \/ q + 1 > Len(txt) \/ txt[q + 1] # ":" THEN ParseFail
             ELSE LET name == SubSeq(txt, i + 1, q - 1)
                      pv == ParseValueAt(txt, q + 2)
                  IN  IF ~pv.ok \/ pv.next > Len(txt) THEN ParseFail
                      ELSE IF txt[pv.next] = "}"
                           THEN ParseOk(Obj(Append(acc, <<name, pv.v>>)), pv.next + 1)
                      ELSE IF txt[pv.next] = ","
                           THEN ParseMembersAt(txt, pv.next + 1,
                                               Append(acc, <<name, pv.v>>))
                      ELSE ParseFail

\* one JSON value starting at token i
ParseValueAt(txt, i) ==
    IF i > Len(txt) THEN ParseFail
    ELSE CASE txt[i] = "null" -> ParseOk(Null, i + 1)
           [] txt[i] = "true" -> ParseOk(Bool(TRUE), i + 1)
           [] txt[i] = "false" -> ParseOk(Bool(FALSE), i + 1)
           [] txt[i] \in Digits ->
                LET e == DigitsEnd(txt, i)
                IN  IF txt[i] = "0" /\ e > i + 1 THEN ParseFail
                    ELSE ParseOk(Num(NumberValue(txt, i, e - 1)), e)
           [] txt[i] = QUOTE ->
                LET q == ClosingQuote(txt, i + 1)
                IN  IF q = 0 THEN ParseFail
                    ELSE ParseOk(Str(SubSeq(txt, i + 1, q - 1)), q + 1)
           [] txt[i] = "{" ->
                IF i + 1 <= Len(txt) /\ txt[i + 1] = "}"
                THEN ParseOk(Obj(<<>>), i + 2)
                ELSE ParseMembersAt(txt, i + 1, <<>>)
           [] OTHER -> ParseFail

\* JSON.parse(txt): the value, or a SyntaxError when txt is not one JSON value
JSONparse(txt) ==
    LET pv == ParseValueAt(txt, 1)
    IN  IF pv.ok /\ pv.next = Len(txt) + 1
        THEN [v |-> pv.v, ok |-> TRUE]
        ELSE [v |-> ErrorValue("SyntaxError"), ok |-> FALSE]

(***************************************************************************)
(* The cache-key builder.                                                  *)
(***************************************************************************)
\* keyPrefix: a string, or undefined when the option is not given
NoPrefix == [s |-> <<>>, defined |-> FALSE]
Prefix(s) == [s |-> s, defined |-> TRUE]

\* the template applied without the test of keyPrefix
buildCacheKeyAlways(key, keyPrefix) ==
    (IF keyPrefix.defined THEN keyPrefix.s ELSE <<"undefined">>) \o <<":">> \o key

\* the prefix joined to the key without the colon
buildCacheKeyNoColon(key, keyPrefix) ==
    IF keyPrefix.defined /\ keyPrefix.s # <<>> THEN keyPrefix.s \o key ELSE key

\* the prefix dropped
buildCacheKeyNoPrefix(key, keyPrefix) == key

\* keyPrefix ? `${keyPrefix}:${key}` : key   (undefined and "" are falsy)
buildCacheKey(key, keyPrefix) ==
    IF keyPrefix.defined /\ keyPrefix.s # <<>>
    THEN keyPrefix.s \o <<":">> \o key
    ELSE key


(***************************************************************************)
(* The table: key TEXT PRIMARY KEY, value TEXT, metadata TEXT.  The set of  *)
(* its rows, each a record of the three columns.                           *)
(***************************************************************************)
EmptyTable == {}
NoRow == [found |-> FALSE, value |-> <<>>, metadata |-> <<>>]
Row(cacheKey, value, metadata) ==
    [key |-> cacheKey, value |-> value, metadata |-> metadata]

\* the keys that have a row, and the rows of a key
Keys(tbl) == {r.key : r \in tbl}
RowsOf(tbl, cacheKey) == {r \in tbl : r.key = cacheKey}
RowOf(tbl, cacheKey) == CHOOSE r \in tbl : r.key = cacheKey

\* SELECT value, metadata FROM t WHERE key = ?   (undefined when no row matches)
DbSelect(tbl, cacheKey) ==
    IF cacheKey \in Keys(tbl)
    THEN [found |-> TRUE, value |-> RowOf(tbl, cacheKey).value,
          metadata |-> RowOf(tbl, cacheKey).metadata]
    ELSE NoRow

\* an INSERT that adds its row whatever the table holds
DbInsertBeside(tbl, cacheKey, value, metadata) ==
    tbl \cup {Row(cacheKey, value, metadata)}

\* an upsert that keeps the metadata of the row it finds
DbInsertOrUpdateValue(tbl, cacheKey, value, metadata) ==
    IF cacheKey \in Keys(tbl)
    THEN (tbl \ RowsOf(tbl, cacheKey))
            \cup {Row(cacheKey, value, RowOf(tbl, cacheKey).metadata)}
    ELSE tbl \cup {Row(cacheKey, value, metadata)}

\* an INSERT OR REPLACE that leaves no row but the one it writes
DbReplaceAll(tbl, cacheKey, value, metadata) == {Row(cacheKey, value, metadata)}

\* INSERT OR REPLACE INTO t (key, value, metadata) VALUES (?, ?, ?): the rows
\* that conflict on the primary key are removed, then the row is inserted
DbInsertOrReplace(tbl, cacheKey, value, metadata) ==
    (tbl \ RowsOf(tbl, cacheKey)) \cup {Row(cacheKey, value, metadata)}

\* a DELETE without its WHERE clause
DbDeleteAll(tbl, cacheKey) == EmptyTable

\* a DELETE that matches nothing
DbDeleteNothing(tbl, cacheKey) == tbl

\* DELETE FROM t WHERE key = ?
DbDelete(tbl, cacheKey) == tbl \ RowsOf(tbl, cacheKey)

NoStmt == [key |-> <<>>, value |-> <<>>, metadata |-> <<>>, sql |-> "none"]

\* a database whose SELECT removes the row it has read
DbRunSelectConsumes(tbl, stmt) ==
    CASE stmt.sql = "insert or replace" ->
            DbInsertOrReplace(tbl, stmt.key, stmt.value, stmt.metadata)
      [] stmt.sql \in {"delete", "select"} -> DbDelete(tbl, stmt.key)
      [] OTHER -> tbl

\* the table after the database has executed a statement
DbRun(tbl, stmt) ==
    CASE stmt.sql = "insert or replace" ->
            DbInsertOrReplace(tbl, stmt.key, stmt.value, stmt.metadata)
      [] stmt.sql = "delete" -> DbDelete(tbl, stmt.key)
      [] OTHER -> tbl

(***************************************************************************)
(* totalTtl of @epic-web/cachified: null ttl is infinite, otherwise        *)
(* (ttl || 0) + (swr || 0).                                                *)
(***************************************************************************)
OrZero(v) == IF Falsy(v) THEN Num(0) ELSE v

totalTtl(metadata) ==
    LET ttl == Field(metadata, <<"ttl">>)
        swr == Field(metadata, <<"swr">>)
    IN  IF Falsy(metadata) THEN Num(0)
        ELSE IF ttl.t = "null" THEN Infinity
        ELSE IF OrZero(ttl).t = "infinity" \/ OrZero(swr).t = "infinity" THEN Infinity
        ELSE Num(OrZero(ttl).n + OrZero(swr).n)

(***************************************************************************)
(* What the three handlers compute, the same expression in every driver.   *)
(***************************************************************************)
Entry(value, metadata) ==
    Obj(<< <<(<<"value">>), value>>, <<(<<"metadata">>), metadata>> >>)
ValueOf(entry) == Field(entry, <<"value">>)
MetadataOf(entry) == Field(entry, <<"metadata">>)

\* a ttl written whenever it is truthy, null otherwise
StoredTtlIfTruthy(ttl) == IF ttl.t = "infinity" \/ Falsy(ttl) THEN Null ELSE ttl

\* ttl === Number.POSITIVE_INFINITY ? null : ttl
StoredTtl(ttl) == IF ttl.t = "infinity" THEN Null ELSE ttl

\* the metadata written as it was given, its ttl not replaced
MetadataTextAsGiven(entry) == JSONstringify(MetadataOf(entry))

\* JSON.stringify({ ...entry.metadata, ttl: ... })
MetadataText(entry) ==
    JSONstringify(SpreadWith(MetadataOf(entry), <<"ttl">>,
                             StoredTtl(totalTtl(MetadataOf(entry)))))

\* the statement of set
SetStatement(key, keyPrefix, entry) ==
    [key |-> buildCacheKey(key, keyPrefix),
     value |-> JSONstringify(ValueOf(entry)),
     metadata |-> MetadataText(entry), sql |-> "insert or replace"]

\* the statement of get
GetStatement(key, keyPrefix) ==
    [key |-> buildCacheKey(key, keyPrefix), value |-> <<>>, metadata |-> <<>>,
     sql |-> "select"]

\* the statement of delete
DeleteStatement(key, keyPrefix) ==
    [key |-> buildCacheKey(key, keyPrefix), value |-> <<>>, metadata |-> <<>>,
     sql |-> "delete"]

Completed(v) == [v |-> v, ok |-> TRUE]
Failed(v) == [v |-> v, ok |-> FALSE]

\* get without its test for an absent row: reading a column of undefined fails
GetOutcomeNoRowTest(row) ==
    IF ~row.found THEN Failed(ErrorValue("TypeError"))
    ELSE LET value == JSONparse(row.value)
             metadata == JSONparse(row.metadata)
         IN  IF ~value.ok THEN Failed(value.v)
             ELSE IF ~metadata.ok THEN Failed(metadata.v)
             ELSE IF Falsy(value.v) THEN Completed(Null)
             ELSE Completed(Entry(value.v, metadata.v))

\* get without its test for a falsy value
GetOutcomeNoFalsyTest(row) ==
    IF ~row.found THEN Completed(Null)
    ELSE LET value == JSONparse(row.value)
             metadata == JSONparse(row.metadata)
         IN  IF ~value.ok THEN Failed(value.v)
             ELSE IF ~metadata.ok THEN Failed(metadata.v)
             ELSE Completed(Entry(value.v, metadata.v))

\* get with the value tested before the metadata column is parsed
GetOutcomeFalsyFirst(row) ==
    IF ~row.found THEN Completed(Null)
    ELSE LET value == JSONparse(row.value)
             metadata == JSONparse(row.metadata)
         IN  IF ~value.ok THEN Failed(value.v)
             ELSE IF Falsy(value.v) THEN Completed(Null)
             ELSE IF ~metadata.ok THEN Failed(metadata.v)
             ELSE Completed(Entry(value.v, metadata.v))

\* get with an entry past its lifetime (createdTime + ttl) reported as a miss
GetOutcomeExpiring(row) ==
    IF ~row.found THEN Completed(Null)
    ELSE LET value == JSONparse(row.value)
             metadata == JSONparse(row.metadata)
         IN  IF ~value.ok THEN Failed(value.v)
             ELSE IF ~metadata.ok THEN Failed(metadata.v)
             ELSE IF Falsy(value.v) THEN Completed(Null)
             ELSE IF /\ Field(metadata.v, <<"ttl">>).t = "number"
                     /\ Field(metadata.v, <<"createdTime">>).t = "number"
                     /\ Field(metadata.v, <<"createdTime">>).n
                            + Field(metadata.v, <<"ttl">>).n <= now
                  THEN Completed(Null)
             ELSE Completed(Entry(value.v, metadata.v))

\* what get makes of the row the database returned: null for no row, both
\* columns parsed (the value first), null for a falsy value, else the entry
GetOutcome(row) ==
    IF ~row.found THEN Completed(Null)
    ELSE LET value == JSONparse(row.value)
             metadata == JSONparse(row.metadata)
         IN  IF ~value.ok THEN Failed(value.v)
             ELSE IF ~metadata.ok THEN Failed(metadata.v)
             ELSE IF Falsy(value.v) THEN Completed(Null)
             ELSE Completed(Entry(value.v, metadata.v))

\* how a synchronous driver hands an outcome to its caller
Direct(outcome) ==
    [v |-> outcome.v, how |-> IF outcome.ok THEN "return" ELSE "throw"]
\* how an asynchronous driver hands an outcome to its caller
ByPromise(outcome) ==
    [v |-> outcome.v, how |-> IF outcome.ok THEN "resolve" ELSE "reject"]
NoResult == [v |-> Undefined, how |-> "none"]

(***************************************************************************)
(* The database behind the handle: open or closed, the cache table there   *)
(* or not, and the table's rows.                                           *)
(***************************************************************************)
Database(isOpen, tableExists, tbl) ==
    [open |-> isOpen, exists |-> tableExists, table |-> tbl]

CreateStatement ==
    [key |-> <<>>, value |-> <<>>, metadata |-> <<>>,
     sql |-> "create table if not exists"]

\* a CREATE TABLE that replaces the table it finds
DbCreateAnew(db) == Database(db.open, TRUE, EmptyTable)

\* CREATE TABLE IF NOT EXISTS t (key TEXT PRIMARY KEY, value TEXT, metadata TEXT)
DbCreateIfNotExists(db) ==
    IF db.exists THEN db ELSE Database(db.open, TRUE, EmptyTable)

\* the database executes one statement: the error it reports (null for
\* none), the database afterwards, and the row a SELECT returns
DbStatement(db, stmt) ==
    IF ~db.open
    THEN [row |-> NoRow, db |-> db, error |-> ErrorValue("SQLITE_MISUSE")]
    ELSE IF stmt.sql = "create table if not exists"
    THEN [row |-> NoRow, db |-> DbCreateIfNotExists(db), error |-> Null]
    ELSE IF ~db.exists
    THEN [row |-> NoRow, db |-> db, error |-> ErrorValue("SQLITE_ERROR")]
    ELSE [row |-> IF stmt.sql = "select" THEN DbSelect(db.table, stmt.key)
                  ELSE NoRow,
          db |-> Database(db.open, db.exists, DbRun(db.table, stmt)),
          error |-> Null]

(***************************************************************************)
(* State.                                                                  *)
(*   driver     the library the database handle and its adapters belong to *)
(*   open       the database handle is open                                *)
(*   exists     the cache table exists                                     *)
(*   created    the adapters have been created                             *)
(*   table      the rows of the cache table                                *)
(*   call       the adapter call in progress or last completed             *)
(*   rival      a second call, made while the first is in flight           *)
(*   lastWrite  history: per storage key, the last set or delete an        *)
(*              adapter executed on it, forgotten when the row is written  *)
(*              past the adapters                                          *)
(*   keyIn, keyOut  inputs and results of the key-builder specification    *)
(*   adapterName    the name property of the adapter, undefined while no   *)
(*              adapter has been created                                   *)
(***************************************************************************)
VARIABLES driver, open, exists, created, table, call, rival, lastWrite,
          keyIn, keyOut, adapterName
vars == <<driver, open, exists, created, table, call, rival, lastWrite,
          keyIn, keyOut, now, adapterName>>

\* better-sqlite3 in its two versions: handlers that return directly on
\* statements prepared at creation, and async handlers that prepare per call
BetterSqlite3Async == "better-sqlite3 (async handlers)"
SyncDrivers == {"better-sqlite3", "bun-sqlite", "node-sqlite"}
AsyncDrivers == {"sqlite", "sqlite3"}
Drivers == SyncDrivers \cup AsyncDrivers \cup {BetterSqlite3Async}
\* the drivers whose adapter prepares its statements when it is created
PreparingDrivers == {"better-sqlite3", "node-sqlite"}

NoWrite == [entry |-> Undefined, kind |-> "none", wasSet |-> FALSE]
IdleCall ==
    [key |-> <<>>, keyPrefix |-> NoPrefix, stmt |-> NoStmt,
     entry |-> Undefined, row |-> NoRow, error |-> Null, op |-> "none",
     stage |-> "idle", existed |-> FALSE, saw |-> NoWrite,
     result |-> NoResult, settles |-> 0, passed |-> Undefined]
NoKeyIn ==
    [given |-> FALSE, k1 |-> <<>>, p1 |-> NoPrefix, k2 |-> <<>>, p2 |-> NoPrefix]
NoKeyOut == [done |-> FALSE, s1 |-> <<>>, s2 |-> <<>>]

LastWriteOf(hist, cacheKey) ==
    IF cacheKey \in DOMAIN hist THEN hist[cacheKey] ELSE NoWrite

\* the history after an adapter's statement has been executed: a set with the
\* entry it was given, a delete with whether the key had been set before
Recorded(hist, stmt, entry) ==
    CASE stmt.sql = "insert or replace" ->
            [x \in DOMAIN hist \cup {stmt.key} |->
                IF x = stmt.key
                THEN [entry |-> entry, kind |-> "set", wasSet |-> TRUE]
                ELSE hist[x]]
      [] stmt.sql = "delete" ->
            [x \in DOMAIN hist \cup {stmt.key} |->
                IF x = stmt.key
                THEN [entry |-> Undefined, kind |-> "delete",
                      wasSet |-> LastWriteOf(hist, x).wasSet]
                ELSE hist[x]]
      [] OTHER -> hist

\* the caller awaits each call before it makes the next
Ready == call.stage \in {"idle", "settled"} /\ rival.stage \in {"idle", "settled"}

\* a set that assigns the ttl it stores to the metadata it was passed
EntryAfterSetAssigned(entry) ==
    Entry(ValueOf(entry),
          SpreadWith(MetadataOf(entry), <<"ttl">>,
                     StoredTtl(totalTtl(MetadataOf(entry)))))

\* the caller's entry object once set has run: totalTtl and JSON.stringify
\* read it, the spread copies its metadata into a new object, and nothing
\* assigns to it
EntryAfterSet(entry) == entry

\* a call as its handler starts it; passed is the caller's entry object as
\* the handler leaves it, entry the entry as it was given
StartedCall(op, key, keyPrefix, entry, stmt) ==
    [key |-> key, keyPrefix |-> keyPrefix, stmt |-> stmt, entry |-> entry,
     row |-> NoRow, error |-> Null, op |-> op, stage |-> "issued",
     existed |-> FALSE, saw |-> NoWrite, result |-> NoResult, settles |-> 0,
     passed |-> IF op = "set" THEN EntryAfterSet(entry) ELSE entry]

\* an adapter that remembers the entry it has just set and answers the next
\* get of that key from memory
ExecutedCallFromMemory(c, done, tbl, hist) ==
    [c EXCEPT !.stage = "executed",
              !.row = IF /\ c.op = "get"
                         /\ call.op = "set"
                         /\ call.error = Null
                         /\ call.stmt.key = c.stmt.key
                      THEN [found |-> TRUE, value |-> call.stmt.value,
                            metadata |-> call.stmt.metadata]
                      ELSE done.row,
              !.error = done.error,
              !.existed = c.stmt.key \in Keys(tbl),
              !.saw = IF c.stmt.sql = "select" /\ done.error = Null
                      THEN LastWriteOf(hist, c.stmt.key) ELSE NoWrite]

\* the call once the database has executed its statement
ExecutedCall(c, done, tbl, hist) ==
    [c EXCEPT !.stage = "executed",
              !.row = done.row,
              !.error = done.error,
              !.existed = c.stmt.key \in Keys(tbl),
              !.saw = IF c.stmt.sql = "select" /\ done.error = Null
                      THEN LastWriteOf(hist, c.stmt.key) ELSE NoWrite]

\* a set that yields nothing, as delete does
AfterStatementSetNothing(c) ==
    IF c.error # Null THEN Failed(c.error)
    ELSE CASE c.op = "get" -> GetOutcome(c.row)
           [] OTHER -> Completed(Undefined)

\* what the code after the statement makes of it
AfterStatement(c) ==
    IF c.error # Null THEN Failed(c.error)
    ELSE CASE c.op = "get" -> GetOutcome(c.row)
           [] c.op = "set" -> Completed(ValueOf(c.entry))
           [] OTHER -> Completed(Undefined)

\* the database and the history after the statement of c has been executed
DatabaseAfter(c) == DbStatement(Database(open, exists, table), c.stmt)
HistoryAfter(c) ==
    IF DatabaseAfter(c).error = Null THEN Recorded(lastWrite, c.stmt, c.entry)
    ELSE lastWrite

(***************************************************************************)
(* Creating the adapters.  better-sqlite3 and node:sqlite prepare their     *)
(* three statements, which fails without the table; the others only keep   *)
(* the options.                                                            *)
(***************************************************************************)
\* the default names
DefaultName(d) ==
    CASE d \in {"better-sqlite3", BetterSqlite3Async} -> Str(<<"better-sqlite3">>)
      [] d = "bun-sqlite" -> Str(<<"bun-sqlite">>)
      [] d = "node-sqlite" -> Str(<<"node-sqlite">>)
      [] d = "sqlite" -> Str(<<"sqlite">>)
      [] d = "sqlite3" -> Str(<<"sqlite3">>)

\* a || b: b when a is falsy
OrElse(a, b) == IF Falsy(a) THEN b ELSE a

\* a ?? b: b when a is undefined or null
Coalesce(a, b) == IF a \in {Undefined, Null} THEN b ELSE a

\* the adapter of driver d created with options.name = optionsName
CacheAdapterNamed(d, optionsName) ==
    /\ driver = d
    /\ ~created
    /\ created' = (d \in PreparingDrivers => (open /\ exists))
    /\ adapterName' = IF created' THEN Coalesce(optionsName, DefaultName(d))
                      ELSE Undefined
    /\ UNCHANGED <<driver, open, exists, table, call, rival, lastWrite, keyIn, keyOut, now>>

\* the adapter created without a name
CacheAdapter(d) == CacheAdapterNamed(d, Undefined)

(***************************************************************************)
(* Handlers that run their statement before they return: better-sqlite3,   *)
(* bun:sqlite, node:sqlite return or throw; the async handlers of the      *)
(* earlier better-sqlite3 adapter return a settled promise.                *)
(***************************************************************************)
\* a statement run inside the call; direct tells whether the outcome is
\* returned or thrown rather than delivered through a promise
SyncRun(d, direct, op, key, keyPrefix, entry, stmt) ==
    /\ driver = d
    /\ Ready
    /\ LET c == ExecutedCall(StartedCall(op, key, keyPrefix, entry, stmt),
                             DbStatement(Database(open, exists, table), stmt),
                             table, lastWrite)
           done == DatabaseAfter(c)
       IN  /\ table' = done.db.table
           /\ exists' = done.db.exists
           /\ lastWrite' = HistoryAfter(c)
           /\ call' = [c EXCEPT !.stage = "settled",
                                !.result = IF direct THEN Direct(AfterStatement(c))
                                           ELSE ByPromise(AfterStatement(c)),
                                !.settles = IF direct THEN 0 ELSE 1]
    /\ UNCHANGED <<driver, adapterName, open, created, rival, keyIn, keyOut, now>>

SyncCall(d, op, key, keyPrefix, entry, stmt) ==
    /\ created
    /\ SyncRun(d, d \in SyncDrivers, op, key, keyPrefix, entry, stmt)

SyncGet(d, key, keyPrefix) ==
    SyncCall(d, "get", key, keyPrefix, Undefined, GetStatement(key, keyPrefix))
SyncSet(d, key, keyPrefix, entry) ==
    SyncCall(d, "set", key, keyPrefix, entry, SetStatement(key, keyPrefix, entry))
SyncDelete(d, key, keyPrefix) ==
    SyncCall(d, "delete", key, keyPrefix, Undefined, DeleteStatement(key, keyPrefix))

BetterSqlite3Get(key, keyPrefix) == SyncGet("better-sqlite3", key, keyPrefix)
BetterSqlite3Set(key, keyPrefix, entry) ==
    SyncSet("better-sqlite3", key, keyPrefix, entry)
BetterSqlite3Delete(key, keyPrefix) == SyncDelete("better-sqlite3", key, keyPrefix)

BetterSqlite3AsyncGet(key, keyPrefix) == SyncGet(BetterSqlite3Async, key, keyPrefix)
BetterSqlite3AsyncSet(key, keyPrefix, entry) ==
    SyncSet(BetterSqlite3Async, key, keyPrefix, entry)
BetterSqlite3AsyncDelete(key, keyPrefix) ==
    SyncDelete(BetterSqlite3Async, key, keyPrefix)

BunSqliteGet(key, keyPrefix) == SyncGet("bun-sqlite", key, keyPrefix)
BunSqliteSet(key, keyPrefix, entry) == SyncSet("bun-sqlite", key, keyPrefix, entry)
BunSqliteDelete(key, keyPrefix) == SyncDelete("bun-sqlite", key, keyPrefix)

NodeSqliteGet(key, keyPrefix) == SyncGet("node-sqlite", key, keyPrefix)
NodeSqliteSet(key, keyPrefix, entry) == SyncSet("node-sqlite", key, keyPrefix, entry)
NodeSqliteDelete(key, keyPrefix) == SyncDelete("node-sqlite", key, keyPrefix)

(***************************************************************************)
(* sqlite (promises) and sqlite3 (callbacks): the handler hands its        *)
(* statement to the database and returns a promise; the database executes  *)
(* the statement; the continuation or callback settles the promise.        *)
(***************************************************************************)
InFlight(c) == c.stage \in {"issued", "executed"}

AsyncRun(d, op, key, keyPrefix, entry, stmt) ==
    /\ driver = d
    /\ Ready
    /\ call' = StartedCall(op, key, keyPrefix, entry, stmt)
    /\ UNCHANGED <<driver, adapterName, open, exists, created, table, rival, lastWrite, keyIn, keyOut, now>>

AsyncCall(d, op, key, keyPrefix, entry, stmt) ==
    /\ created
    /\ AsyncRun(d, op, key, keyPrefix, entry, stmt)

\* the same handler called again while the first call is in flight
AsyncCallMeanwhile(d, op, key, keyPrefix, entry, stmt) ==
    /\ driver = d
    /\ created
    /\ InFlight(call)
    /\ rival.stage \in {"idle", "settled"}
    /\ rival' = StartedCall(op, key, keyPrefix, entry, stmt)
    /\ UNCHANGED <<driver, adapterName, open, exists, created, table, call, lastWrite, keyIn, keyOut, now>>

SqliteGet(key, keyPrefix) ==
    AsyncCall("sqlite", "get", key, keyPrefix, Undefined, GetStatement(key, keyPrefix))
SqliteSet(key, keyPrefix, entry) ==
    AsyncCall("sqlite", "set", key, keyPrefix, entry, SetStatement(key, keyPrefix, entry))
SqliteDelete(key, keyPrefix) ==
    AsyncCall("sqlite", "delete", key, keyPrefix, Undefined,
              DeleteStatement(key, keyPrefix))

Sqlite3Get(key, keyPrefix) ==
    AsyncCall("sqlite3", "get", key, keyPrefix, Undefined, GetStatement(key, keyPrefix))
Sqlite3Set(key, keyPrefix, entry) ==
    AsyncCall("sqlite3", "set", key, keyPrefix, entry,
              SetStatement(key, keyPrefix, entry))
Sqlite3Delete(key, keyPrefix) ==
    AsyncCall("sqlite3", "delete", key, keyPrefix, Undefined,
              DeleteStatement(key, keyPrefix))

SqliteGetMeanwhile(key, keyPrefix) ==
    AsyncCallMeanwhile("sqlite", "get", key, keyPrefix, Undefined,
                       GetStatement(key, keyPrefix))
SqliteSetMeanwhile(key, keyPrefix, entry) ==
    AsyncCallMeanwhile("sqlite", "set", key, keyPrefix, entry,
                       SetStatement(key, keyPrefix, entry))
Sqlite3GetMeanwhile(key, keyPrefix) ==
    AsyncCallMeanwhile("sqlite3", "get", key, keyPrefix, Undefined,
                       GetStatement(key, keyPrefix))
Sqlite3SetMeanwhile(key, keyPrefix, entry) ==
    AsyncCallMeanwhile("sqlite3", "set", key, keyPrefix, entry,
                       SetStatement(key, keyPrefix, entry))

\* the database executes the statement of the call in flight
DbExecute ==
    /\ call.stage = "issued"
    /\ table' = DatabaseAfter(call).db.table
    /\ exists' = DatabaseAfter(call).db.exists
    /\ lastWrite' = HistoryAfter(call)
    /\ call' = ExecutedCall(call, DatabaseAfter(call), table, lastWrite)
    /\ UNCHANGED <<driver, adapterName, open, created, rival, keyIn, keyOut, now>>

\* the database executes the statement of the second call
DbExecuteMeanwhile ==
    /\ rival.stage = "issued"
    /\ table' = DatabaseAfter(rival).db.table
    /\ exists' = DatabaseAfter(rival).db.exists
    /\ lastWrite' = HistoryAfter(rival)
    /\ rival' = ExecutedCall(rival, DatabaseAfter(rival), table, lastWrite)
    /\ UNCHANGED <<driver, adapterName, open, created, call, keyIn, keyOut, now>>

\* sqlite: the awaited statement has settled and the async handler runs on,
\* its promise resolved by its return and rejected by what it throws
SqliteResumed(c) ==
    [c EXCEPT !.stage = "settled",
              !.result = ByPromise(AfterStatement(c)),
              !.settles = 1]

SqliteResume ==
    /\ driver = "sqlite"
    /\ call.stage = "executed"
    /\ call' = SqliteResumed(call)
    /\ UNCHANGED <<driver, adapterName, open, exists, created, table, rival, lastWrite, keyIn, keyOut, now>>

SqliteResumeMeanwhile ==
    /\ driver = "sqlite"
    /\ rival.stage = "executed"
    /\ rival' = SqliteResumed(rival)
    /\ UNCHANGED <<driver, adapterName, open, exists, created, table, call, lastWrite, keyIn, keyOut, now>>

Resolve(v) == [v |-> v, how |-> "resolve"]
Reject(e) == [v |-> e, how |-> "reject"]

\* a callback that rejects on an error and then runs on
Sqlite3SettlesNoReturn(c) ==
    (IF c.error # Null THEN <<Reject(c.error)>> ELSE <<>>)
    \o (CASE c.op = "get" -> <<ByPromise(GetOutcome(c.row))>>
          [] c.op = "set" -> <<Resolve(ValueOf(c.entry))>>
          [] OTHER -> <<Resolve(Undefined)>>)

\* sqlite3: the calls of resolve and reject that the callback makes, in order
Sqlite3Settles(c) ==
    IF c.error # Null THEN <<Reject(c.error)>>
    ELSE CASE c.op = "get" -> <<ByPromise(GetOutcome(c.row))>>
           [] c.op = "set" -> <<Resolve(ValueOf(c.entry))>>
           [] OTHER -> <<Resolve(Undefined)>>

\* the promise takes the first of them
Sqlite3CalledBack(c) ==
    [c EXCEPT !.stage = "settled",
              !.result = Sqlite3Settles(c)[1],
              !.settles = Len(Sqlite3Settles(c))]

\* sqlite3: the driver invokes the callback
Sqlite3Callback ==
    /\ driver = "sqlite3"
    /\ call.stage = "executed"
    /\ call' = Sqlite3CalledBack(call)
    /\ UNCHANGED <<driver, adapterName, open, exists, created, table, rival, lastWrite, keyIn, keyOut, now>>

Sqlite3CallbackMeanwhile ==
    /\ driver = "sqlite3"
    /\ rival.stage = "executed"
    /\ rival' = Sqlite3CalledBack(rival)
    /\ UNCHANGED <<driver, adapterName, open, exists, created, table, call, lastWrite, keyIn, keyOut, now>>

(***************************************************************************)
(* The helpers that create the cache table.                                *)
(***************************************************************************)
CreateBetterSqlite3CacheTable(d) ==
    /\ d \in {"better-sqlite3", BetterSqlite3Async}
    /\ SyncRun(d, TRUE, "create", <<>>, NoPrefix, Undefined, CreateStatement)
CreateBunSqliteCacheTable ==
    SyncRun("bun-sqlite", TRUE, "create", <<>>, NoPrefix, Undefined, CreateStatement)
CreateNodeSqliteCacheTable ==
    SyncRun("node-sqlite", TRUE, "create", <<>>, NoPrefix, Undefined, CreateStatement)
CreateSqliteCacheTable ==
    AsyncRun("sqlite", "create", <<>>, NoPrefix, Undefined, CreateStatement)
CreateSqlite3CacheTable ==
    AsyncRun("sqlite3", "create", <<>>, NoPrefix, Undefined, CreateStatement)

(***************************************************************************)
(* What the tests do through the database handle, past the adapters: the   *)
(* table created by a plain CREATE TABLE, a row written by a plain INSERT  *)
(* (which fails when the key has a row), the handle closed.                *)
(***************************************************************************)
\* an INSERT under the primary key: refused when the key has a row
DbInsert(tbl, cacheKey, value, metadata) ==
    IF cacheKey \in Keys(tbl) THEN tbl
    ELSE tbl \cup {Row(cacheKey, value, metadata)}

DirectCreateTable ==
    /\ driver \in Drivers
    /\ open
    /\ ~exists
    /\ Ready
    /\ exists' = TRUE
    /\ table' = EmptyTable
    /\ UNCHANGED <<driver, adapterName, open, created, call, rival, lastWrite, keyIn, keyOut, now>>

DirectInsert(cacheKey, value, metadata) ==
    /\ driver \in Drivers
    /\ open
    /\ exists
    /\ cacheKey \notin Keys(table)
    /\ table' = DbInsert(table, cacheKey, value, metadata)
    /\ lastWrite' = [x \in DOMAIN lastWrite \ {cacheKey} |-> lastWrite[x]]
    /\ UNCHANGED <<driver, adapterName, open, exists, created, call, rival, keyIn, keyOut, now>>

DatabaseClose ==
    /\ driver \in Drivers
    /\ open
    /\ Ready
    /\ open' = FALSE
    /\ UNCHANGED <<driver, adapterName, exists, created, table, call, rival, lastWrite, keyIn, keyOut, now>>

(***************************************************************************)
(* The key builder applied to two (key, prefix) pairs.                     *)
(***************************************************************************)
BuildKeys ==
    /\ ~keyOut.done
    /\ keyIn.given
    /\ keyOut' = [done |-> TRUE, s1 |-> buildCacheKey(keyIn.k1, keyIn.p1),
                  s2 |-> buildCacheKey(keyIn.k2, keyIn.p2)]
    /\ UNCHANGED <<driver, adapterName, open, exists, created, table, call, rival, lastWrite, keyIn, now>>

(***************************************************************************)
(* Inputs.                                                                 *)
(***************************************************************************)
CreatedTime == <<"createdTime">>
Ttl == <<"ttl">>
Swr == <<"swr">>

\* what a caller may give as ttl or swr: absent, null, Infinity or a number
Lifetimes == {Undefined, Null, Infinity} \cup {Num(n) : n \in 0..MaxNum}

\* a metadata object { createdTime, ttl?, swr? }, a field left out when absent
Metadata(ttl, swr) ==
    Obj(<< <<CreatedTime, Num(1)>> >>
        \o (IF ttl = Undefined THEN <<>> ELSE << <<Ttl, ttl>> >>)
        \o (IF swr = Undefined THEN <<>> ELSE << <<Swr, swr>> >>))

FalsyValues == {Null, Bool(FALSE), Num(0), Str(<<>>)}
TruthyValues ==
    {Bool(TRUE), Num(1), Str(<<"v">>), Obj(<< <<(<<"foo">>), Str(<<"b">>)>> >>)}

\* the entries of the entry specification: every value with two metadata
\* objects, and a truthy and a falsy value with every metadata object
AllEntries ==
    {Entry(v, Metadata(ttl, Undefined)) :
        v \in FalsyValues \cup TruthyValues, ttl \in {Num(1), Infinity}}
    \cup {Entry(v, Metadata(ttl, swr)) :
            v \in {Str(<<"v">>), Num(0)}, ttl \in Lifetimes, swr \in Lifetimes}

\* the entries of the table specification
SomeEntries ==
    {Entry(Str(<<"v">>), Metadata(Num(1), Num(1))),
     Entry(Num(1), Metadata(Infinity, Undefined)),
     Entry(Num(0), Metadata(Num(0), Undefined))}

NonJson == <<"N", "o", "n">>
\* the column texts the tests insert past the adapter
AllRows ==
    {[value |-> v, metadata |-> m] :
        v \in {JSONstringify(x) : x \in FalsyValues \cup {Str(<<"v">>)}} \cup {NonJson},
        m \in {JSONstringify(Metadata(Num(1), Undefined)), NonJson}}
SomeRows ==
    {[value |-> JSONstringify(Str(<<"v">>)),
      metadata |-> JSONstringify(Metadata(Num(1), Undefined))],
     [value |-> NonJson, metadata |-> JSONstringify(Metadata(Undefined, Undefined))]}

\* the (key, keyPrefix) pairs of the table specification: three adapters on
\* one table, two of which meet on the storage key a:a
Targets ==
    {[key |-> <<"a", ":", "a">>, keyPrefix |-> NoPrefix],
     [key |-> <<"a">>, keyPrefix |-> Prefix(<<"a">>)],
     [key |-> <<"a">>, keyPrefix |-> Prefix(<<"b">>)]}
\* the one pair of the entry specification
OneTarget == {[key |-> <<"k">>, keyPrefix |-> NoPrefix]}

StorageKeys(T) == {buildCacheKey(t.key, t.keyPrefix) : t \in T}

KeyAlphabet == {"a", ":"}
PrefixAlphabet == {"a", ":"}
KeyStrings == UNION {[1..m -> KeyAlphabet] : m \in 0..MaxKeyLen}
KeyPrefixes ==
    {NoPrefix}
    \cup {Prefix(s) : s \in UNION {[1..m -> PrefixAlphabet] : m \in 0..MaxPrefixLen}}

(***************************************************************************)
(* Specifications.                                                         *)
(***************************************************************************)
\* the table created and empty, the adapters created, no call made yet
Init ==
    /\ driver \in Drivers
    /\ open = TRUE
    /\ exists = TRUE
    /\ created = TRUE
    /\ rival = IdleCall
    /\ table = EmptyTable
    /\ lastWrite = [x \in {} |-> NoWrite]
    /\ call = IdleCall
    /\ keyIn = NoKeyIn
    /\ keyOut = NoKeyOut
    /\ now = 1
    /\ adapterName = DefaultName(driver)

Calls(T, E) ==
    \/ \E t \in T : BetterSqlite3Get(t.key, t.keyPrefix)
    \/ \E t \in T, e \in E : BetterSqlite3Set(t.key, t.keyPrefix, e)
    \/ \E t \in T : BetterSqlite3Delete(t.key, t.keyPrefix)
    \/ \E t \in T : BetterSqlite3AsyncGet(t.key, t.keyPrefix)
    \/ \E t \in T, e \in E : BetterSqlite3AsyncSet(t.key, t.keyPrefix, e)
    \/ \E t \in T : BetterSqlite3AsyncDelete(t.key, t.keyPrefix)
    \/ \E t \in T : BunSqliteGet(t.key, t.keyPrefix)
    \/ \E t \in T, e \in E : BunSqliteSet(t.key, t.keyPrefix, e)
    \/ \E t \in T : BunSqliteDelete(t.key, t.keyPrefix)
    \/ \E t \in T : NodeSqliteGet(t.key, t.keyPrefix)
    \/ \E t \in T, e \in E : NodeSqliteSet(t.key, t.keyPrefix, e)
    \/ \E t \in T : NodeSqliteDelete(t.key, t.keyPrefix)
    \/ \E t \in T : SqliteGet(t.key, t.keyPrefix)
    \/ \E t \in T, e \in E : SqliteSet(t.key, t.keyPrefix, e)
    \/ \E t \in T : SqliteDelete(t.key, t.keyPrefix)
    \/ \E t \in T : Sqlite3Get(t.key, t.keyPrefix)
    \/ \E t \in T, e \in E : Sqlite3Set(t.key, t.keyPrefix, e)
    \/ \E t \in T : Sqlite3Delete(t.key, t.keyPrefix)

\* the table specification: several adapters and keys, few entries
Next ==
    \/ Calls(Targets, SomeEntries)
    \/ DbExecute
    \/ SqliteResume
    \/ Sqlite3Callback
    \/ \E k \in StorageKeys(Targets), r \in SomeRows :
            DirectInsert(k, r.value, r.metadata)

Spec == Init /\ [][Next]_vars

\* the entry specification: one adapter and key, every entry
NextEntry ==
    \/ Calls(OneTarget, AllEntries)
    \/ DbExecute
    \/ SqliteResume
    \/ Sqlite3Callback
    \/ \E k \in StorageKeys(OneTarget), r \in AllRows :
            DirectInsert(k, r.value, r.metadata)

SpecEntry == Init /\ [][NextEntry]_vars

\* the entries of the race specification: they differ in the value and in
\* every metadata field
TwoEntries ==
    {Entry(Str(<<"v">>), Metadata(Num(1), Num(1))),
     Entry(Num(1), Metadata(Infinity, Undefined))}

\* a database just opened: no table, no adapter
InitBoot ==
    /\ driver \in Drivers
    /\ open = TRUE
    /\ exists = FALSE
    /\ created = FALSE
    /\ table = EmptyTable
    /\ lastWrite = [x \in {} |-> NoWrite]
    /\ call = IdleCall
    /\ rival = IdleCall
    /\ keyIn = NoKeyIn
    /\ keyOut = NoKeyOut
    /\ now = 1
    /\ adapterName = Undefined

CreateTable ==
    \/ \E d \in Drivers : CreateBetterSqlite3CacheTable(d)
    \/ CreateBunSqliteCacheTable
    \/ CreateNodeSqliteCacheTable
    \/ CreateSqliteCacheTable
    \/ CreateSqlite3CacheTable

\* the bootstrap specification: the table created by the helpers or directly,
\* the adapters created, every call, the handle closed
NextBoot ==
    \/ \E d \in Drivers : CacheAdapter(d)
    \/ CreateTable
    \/ Calls(Targets, SomeEntries)
    \/ DbExecute
    \/ SqliteResume
    \/ Sqlite3Callback
    \/ DirectCreateTable
    \/ \E k \in StorageKeys(Targets), r \in SomeRows :
            DirectInsert(k, r.value, r.metadata)
    \/ DatabaseClose

SpecBoot == InitBoot /\ [][NextBoot]_vars

\* the two adapters that meet on one storage key
RaceTargets == {t \in Targets : buildCacheKey(t.key, t.keyPrefix) = <<"a", ":", "a">>}

InitRace ==
    /\ driver \in AsyncDrivers
    /\ open = TRUE
    /\ exists = TRUE
    /\ created = TRUE
    /\ table = EmptyTable
    /\ lastWrite = [x \in {} |-> NoWrite]
    /\ call = IdleCall
    /\ rival = IdleCall
    /\ keyIn = NoKeyIn
    /\ keyOut = NoKeyOut
    /\ now = 1
    /\ adapterName = DefaultName(driver)

\* the race specification: get and set of the asynchronous drivers, a second
\* call made while the first is in flight, the statements executed in any order
NextRace ==
    \/ \E t \in RaceTargets : SqliteGet(t.key, t.keyPrefix)
    \/ \E t \in RaceTargets, e \in TwoEntries : SqliteSet(t.key, t.keyPrefix, e)
    \/ \E t \in RaceTargets : Sqlite3Get(t.key, t.keyPrefix)
    \/ \E t \in RaceTargets, e \in TwoEntries : Sqlite3Set(t.key, t.keyPrefix, e)
    \/ \E t \in RaceTargets : SqliteGetMeanwhile(t.key, t.keyPrefix)
    \/ \E t \in RaceTargets, e \in TwoEntries : SqliteSetMeanwhile(t.key, t.keyPrefix, e)
    \/ \E t \in RaceTargets : Sqlite3GetMeanwhile(t.key, t.keyPrefix)
    \/ \E t \in RaceTargets, e \in TwoEntries : Sqlite3SetMeanwhile(t.key, t.keyPrefix, e)
    \/ DbExecute
    \/ DbExecuteMeanwhile
    \/ SqliteResume
    \/ SqliteResumeMeanwhile
    \/ Sqlite3Callback
    \/ Sqlite3CallbackMeanwhile

SpecRace == InitRace /\ [][NextRace]_vars

\* time passes
Tick ==
    /\ driver \in Drivers
    /\ now < MaxTime
    /\ now' = now + 1
    /\ UNCHANGED <<driver, adapterName, open, exists, created, table, call, rival, lastWrite,
                   keyIn, keyOut>>

\* the entries of the clock specification, created at time 1: a lifetime of
\* 0, of 1, of 1 with 1 of stale-while-revalidate, and an infinite one
TimedEntries ==
    {Entry(Str(<<"v">>), Metadata(ttl, swr)) :
        ttl \in {Num(0), Num(1), Infinity}, swr \in {Undefined, Num(1)}}

\* the clock specification: one adapter and key, entries of every lifetime,
\* and the clock
NextClock ==
    \/ Calls(OneTarget, TimedEntries)
    \/ DbExecute
    \/ SqliteResume
    \/ Sqlite3Callback
    \/ Tick

SpecClock == Init /\ [][NextClock]_vars

\* the key-builder specification: two (key, prefix) pairs, then the two keys
InitKey ==
    /\ driver = "none"
    /\ open = TRUE
    /\ exists = FALSE
    /\ created = FALSE
    /\ rival = IdleCall
    /\ table = EmptyTable
    /\ lastWrite = [x \in {} |-> NoWrite]
    /\ call = IdleCall
    /\ keyIn \in {[given |-> TRUE, k1 |-> k1, p1 |-> p1, k2 |-> k2, p2 |-> p2] :
                    k1 \in KeyStrings, p1 \in KeyPrefixes,
                    k2 \in KeyStrings, p2 \in KeyPrefixes}
    /\ keyOut = NoKeyOut
    /\ now = 1
    /\ adapterName = Undefined

NextKey == BuildKeys

SpecKey == InitKey /\ [][NextKey]_vars

(***************************************************************************)
(* Properties.                                                             *)
(***************************************************************************)
GetSettled == call.op = "get" /\ call.stage = "settled"
Delivered(v) == call.result.how \in {"return", "resolve"} /\ call.result.v = v
DeliveredEntry == call.result.how \in {"return", "resolve"} /\ call.result.v.t = "object"

\* the ttl set stores for a metadata object
ExpectedTtl(m) == IF totalTtl(m) = Infinity THEN Null ELSE totalTtl(m)

\* a get that read a row which the last write to its storage key, a set of a
\* truthy value, had stored
ReadBack == GetSettled /\ call.saw.kind = "set" /\ ~Falsy(ValueOf(call.saw.entry))

\* C1 as stated: a get that follows a set of a truthy value on the same
\* storage key, with no write to that key in between, yields the value and the
\* metadata with every field unchanged except ttl, which is totalTtl or null
C1_RoundTripUnchanged ==
    ReadBack =>
        LET m == MetadataOf(call.saw.entry)
            got == MetadataOf(call.result.v)
        IN  /\ DeliveredEntry
            /\ ValueOf(call.result.v) = ValueOf(call.saw.entry)
            /\ Field(got, Ttl) = ExpectedTtl(m)
            /\ \A nm \in (FieldNames(m) \cup FieldNames(got)) \ {Ttl} :
                    Field(got, nm) = Field(m, nm)

\* what JSON text keeps of a field: Infinity comes back as null
AsJson(v) == IF v = Infinity THEN Null ELSE v

\* C1 amended: as above, except that a field holding Infinity (swr) is read
\* back as null
C1_RoundTrip ==
    ReadBack =>
        LET m == MetadataOf(call.saw.entry)
            got == MetadataOf(call.result.v)
        IN  /\ DeliveredEntry
            /\ ValueOf(call.result.v) = ValueOf(call.saw.entry)
            /\ Field(got, Ttl) = ExpectedTtl(m)
            /\ \A nm \in (FieldNames(m) \cup FieldNames(got)) \ {Ttl} :
                    Field(got, nm) = AsJson(Field(m, nm))

C1_Witness ==
    /\ ReadBack
    /\ DeliveredEntry
    /\ Field(MetadataOf(call.saw.entry), Swr) = Num(1)
    /\ Field(MetadataOf(call.result.v), Ttl) = Num(2)

\* C2: a get whose storage key has no row when its statement runs yields
\* null, and neither throws nor rejects
C2_AbsentRowIsNull == (GetSettled /\ ~call.existed) => Delivered(Null)

C2_Witness == GetSettled /\ ~call.existed /\ call.saw.kind = "delete" /\ Delivered(Null)

\* a get that read a row whose value column parses to a falsy value
ReadFalsy ==
    /\ GetSettled
    /\ call.existed
    /\ JSONparse(call.row.value).ok
    /\ Falsy(JSONparse(call.row.value).v)

\* C3 as stated: a get of a row whose value column holds a falsy JSON value
\* yields null and is no error, whatever else the row holds
C3_FalsyIsMissAlways == ReadFalsy => Delivered(Null)

\* C3 amended: ... provided the row's metadata column is valid JSON
C3_FalsyIsMiss ==
    (ReadFalsy /\ JSONparse(call.row.metadata).ok) => Delivered(Null)

C3_Witness ==
    /\ ReadFalsy
    /\ call.saw.kind = "set"
    /\ ValueOf(call.saw.entry) = Bool(FALSE)
    /\ Delivered(Null)

\* C4: from a delete of a key that had been set until the next write to its
\* storage key, the table has no row for it and a get yields null
C4_DeletedStaysGone ==
    /\ \A k \in DOMAIN lastWrite :
            (lastWrite[k].kind = "delete" /\ lastWrite[k].wasSet)
                => k \notin Keys(table)
    /\ (GetSettled /\ call.saw.kind = "delete" /\ call.saw.wasSet)
            => (~call.existed /\ Delivered(Null))

C4_Witness ==
    /\ GetSettled
    /\ call.saw.kind = "delete"
    /\ call.saw.wasSet
    /\ Delivered(Null)

\* a step in which a delete statement for storage key k is executed
DeleteRuns(k) ==
    \/ \E d \in SyncDrivers \cup {BetterSqlite3Async}, t \in Targets :
            k = buildCacheKey(t.key, t.keyPrefix) /\ SyncDelete(d, t.key, t.keyPrefix)
    \/ call.stmt.sql = "delete" /\ call.stmt.key = k /\ DbExecute

C6_DeleteFrame ==
    [][\A k \in StorageKeys(Targets) :
        DeleteRuns(k) =>
            \A x \in StorageKeys(Targets) \ {k} :
                /\ DbSelect(table', x) = DbSelect(table, x)
                /\ GetOutcome(DbSelect(table', x)) = GetOutcome(DbSelect(table, x))]_vars

C6_Witness ==
    /\ call.op = "delete"
    /\ call.stage = "settled"
    /\ call.existed
    /\ \E x \in Keys(table) : LastWriteOf(lastWrite, x).kind = "set"

\* C7: the ttl set writes is null exactly when totalTtl is infinite and is
\* totalTtl otherwise (0 as 0); a ttl of Infinity is read back as null
C7_StoredTtl ==
    /\ (call.op = "set" /\ call.stage \in {"executed", "settled"}) =>
            /\ call.stmt.key \in Keys(table)
            /\ LET stored == JSONparse(RowOf(table, call.stmt.key).metadata)
                   total == totalTtl(MetadataOf(call.entry))
               IN  /\ stored.ok
                   /\ (Field(stored.v, Ttl) = Null) <=> (total = Infinity)
                   /\ total # Infinity => Field(stored.v, Ttl) = total
    /\ (ReadBack /\ Field(MetadataOf(call.saw.entry), Ttl) = Infinity) =>
            Field(MetadataOf(call.result.v), Ttl) = Null

C7_Witness ==
    /\ ReadBack
    /\ Field(MetadataOf(call.saw.entry), Ttl) = Infinity
    /\ Field(MetadataOf(call.result.v), Ttl) = Null

\* C8: without a prefix the storage key is the key
C8_NoPrefix == (keyOut.done /\ ~keyIn.p1.defined) => keyOut.s1 = keyIn.k1

C8_Witness == keyOut.done /\ ~keyIn.p1.defined /\ Len(keyIn.k1) = MaxKeyLen

\* C9 as stated: with any prefix string the storage key is prefix:key
C9_AnyPrefix ==
    (keyOut.done /\ keyIn.p1.defined) => keyOut.s1 = keyIn.p1.s \o <<":">> \o keyIn.k1

\* C9 amended: with a non-empty prefix the storage key is prefix:key, with
\* the empty string as prefix it is the key
C9_NonEmptyPrefix ==
    (keyOut.done /\ keyIn.p1.defined) =>
        keyOut.s1 = IF keyIn.p1.s = <<>> THEN keyIn.k1
                    ELSE keyIn.p1.s \o <<":">> \o keyIn.k1

C9_Witness ==
    keyOut.done /\ keyIn.p1.defined /\ keyIn.p1.s # <<>> /\ keyIn.k1 # <<>>

HasColon(s) == \E i \in 1..Len(s) : s[i] = ":"
\* a prefix that is a non-empty string without a colon
PlainPrefix(p) == p.defined /\ p.s # <<>> /\ ~HasColon(p.s)

\* C10 as stated: two adapters with different keyPrefix values never use the
\* same storage key, whatever the keys
C10_NeverCollide == (keyOut.done /\ keyIn.p1 # keyIn.p2) => keyOut.s1 # keyOut.s2

\* C10 amended: ... with different prefixes that are both non-empty and free
\* of colons
C10_PlainPrefixesApart ==
    (keyOut.done /\ keyIn.p1 # keyIn.p2 /\ PlainPrefix(keyIn.p1) /\ PlainPrefix(keyIn.p2))
        => keyOut.s1 # keyOut.s2

C10_Witness ==
    /\ keyOut.done
    /\ keyIn.p1 # keyIn.p2
    /\ PlainPrefix(keyIn.p1)
    /\ PlainPrefix(keyIn.p2)
    /\ keyIn.k1 = keyIn.k2
    /\ HasColon(keyIn.k1)

\* the storage key prefix:key
PrefixedKey(p, k) == p \o <<":">> \o k
\* the two prefixes of the table specification and their base key
PrefixA == <<"a">>
PrefixB == <<"b">>
BaseKey == <<"a">>
\* the row that set writes for an entry
RowWritten(cacheKey, entry) ==
    Row(cacheKey, JSONstringify(ValueOf(entry)), MetadataText(entry))

\* C11: for one base key and the prefixes a and b, every call through the
\* adapter with prefix p works on the storage key p:key; a key last written by
\* a set holds exactly the one row of that set; a get through the adapter with
\* prefix p yields the value last set under p:key; and a call through one of
\* the two adapters leaves the row of the other as it was
C11_PrefixedRowsApart ==
    /\ [](\A p \in {PrefixA, PrefixB} :
            /\ (call.stage = "settled" /\ call.keyPrefix = Prefix(p))
                    => call.stmt.key = PrefixedKey(p, call.key)
            /\ LastWriteOf(lastWrite, PrefixedKey(p, BaseKey)).kind = "set"
                    => RowsOf(table, PrefixedKey(p, BaseKey))
                        = {RowWritten(PrefixedKey(p, BaseKey),
                                      lastWrite[PrefixedKey(p, BaseKey)].entry)}
            /\ (GetSettled /\ call.keyPrefix = Prefix(p) /\ call.key = BaseKey
                    /\ LastWriteOf(lastWrite, PrefixedKey(p, BaseKey)).kind = "set"
                    /\ ~Falsy(ValueOf(lastWrite[PrefixedKey(p, BaseKey)].entry)))
                    => /\ DeliveredEntry
                       /\ ValueOf(call.result.v)
                            = ValueOf(lastWrite[PrefixedKey(p, BaseKey)].entry))
    /\ [][\A p \in {PrefixA, PrefixB}, q \in {PrefixA, PrefixB} :
            (p # q /\ call' # call /\ call'.keyPrefix = Prefix(p))
                => RowsOf(table', PrefixedKey(q, BaseKey))
                    = RowsOf(table, PrefixedKey(q, BaseKey))]_vars

C11_Witness ==
    /\ GetSettled
    /\ call.keyPrefix = Prefix(PrefixA)
    /\ DeliveredEntry
    /\ LastWriteOf(lastWrite, PrefixedKey(PrefixB, BaseKey)).kind = "set"
    /\ PrefixedKey(PrefixB, BaseKey) \in Keys(table)
    /\ ValueOf(lastWrite[PrefixedKey(PrefixB, BaseKey)].entry) # ValueOf(call.result.v)

SetSettled == call.op = "set" /\ call.stage = "settled"

BadJson(row) ==
    row.found /\ (~JSONparse(row.value).ok \/ ~JSONparse(row.metadata).ok)

\* C13: a get that read a row with text that is not valid JSON in its value
\* column or in its metadata column fails with the parse error, thrown or
\* rejected, whatever the other column holds, and the steps of such a get
\* leave the table as it was
C13_GetFailsOnBadJson ==
    /\ []((GetSettled /\ BadJson(call.row)) =>
            /\ call.result.how = IF driver \in SyncDrivers THEN "throw" ELSE "reject"
            /\ call.result.v = ErrorValue("SyntaxError"))
    /\ [][(call' # call /\ call'.op = "get" /\ BadJson(call'.row))
            => table' = table]_vars

C13_Witness ==
    /\ GetSettled
    /\ BadJson(call.row)
    /\ JSONparse(call.row.value).ok
    /\ Falsy(JSONparse(call.row.value).v)
    /\ call.result.how = "throw"
    /\ RowsOf(table, call.stmt.key)
        = {Row(call.stmt.key, call.row.value, call.row.metadata)}

\* a completed get, set or delete
HandlerSettled == call.op \in {"get", "set", "delete"} /\ call.stage = "settled"
\* the two ways a handler hands over its outcome
HandedDirectly == call.result.how \in {"return", "throw"}
HandedByPromise == call.result.how \in {"resolve", "reject"}

\* C14: the handlers of the better-sqlite3, bun:sqlite and node:sqlite
\* adapters return their result or throw, and never hand over a promise;
\* those of the sqlite and sqlite3 adapters hand every outcome, failures
\* included, over through the promise they return
C14_CallConvention ==
    HandlerSettled =>
        IF driver \in AsyncDrivers THEN HandedByPromise ELSE HandedDirectly

C14_Witness ==
    /\ HandlerSettled
    /\ driver = BetterSqlite3Async
    /\ call.op = "get"
    /\ BadJson(call.row)
    /\ call.result = Reject(ErrorValue("SyntaxError"))

\* C15: a call of the sqlite3 adapter or of createSqlite3CacheTable has made
\* no call of resolve or reject while its statement is with the driver, the
\* callback makes exactly one, and the promise is then settled: on a driver
\* error, an absent row, a falsy value, a parse failure and on success
C15_SettledOnce ==
    /\ [](driver = "sqlite3" =>
            /\ InFlight(call) => (call.settles = 0 /\ call.result = NoResult)
            /\ call.stage = "settled" => (call.settles = 1 /\ HandedByPromise))
    /\ [][Sqlite3Callback => (call'.stage = "settled" /\ call'.settles = 1)]_vars

C15_Witness ==
    /\ driver = "sqlite3"
    /\ call.op = "create"
    /\ call.stage = "settled"
    /\ call.error # Null
    /\ call.result = Reject(call.error)
    /\ call.settles = 1

\* C16: whatever sets, deletes, gets and table creations have run, through
\* whichever adapters, the table holds exactly one row for each key it holds
\* (and no row while it does not exist)
C16_OneRowPerKey ==
    /\ \A k \in Keys(table) : Cardinality(RowsOf(table, k)) = 1
    /\ ~exists => table = EmptyTable

C16_Witness ==
    /\ SetSettled
    /\ call.error = Null
    /\ call.existed
    /\ RowsOf(table, call.stmt.key) = {RowWritten(call.stmt.key, call.entry)}
    /\ Cardinality(Keys(table)) = 2

\* a step in which the statement of a set on storage key k is executed
SetRuns(k) ==
    /\ call'.op = "set"
    /\ call'.stmt.key = k
    /\ call'.error = Null
    /\ call'.stage \in {"executed", "settled"}
    /\ call.stage \in {"idle", "issued", "settled"}
    /\ call' # call

WholeRow(value, metadata) ==
    \E e \in TwoEntries :
        value = JSONstringify(ValueOf(e)) /\ metadata = MetadataText(e)

\* C18: with two calls of an asynchronous driver in flight on one storage key
\* and their statements executed in either order, the row is the value and
\* metadata of the set whose statement was executed last, every row is the pair
\* of one set, and a get in flight beside a set reads such a pair
C18_NoMixedRow ==
    /\ \A k \in Keys(table) :
            LastWriteOf(lastWrite, k).kind = "set"
                => RowsOf(table, k) = {RowWritten(k, lastWrite[k].entry)}
    /\ \A r \in table : WholeRow(r.value, r.metadata)
    /\ call.op = "get" /\ call.row.found => WholeRow(call.row.value, call.row.metadata)
    /\ rival.op = "get" /\ rival.row.found
            => WholeRow(rival.row.value, rival.row.metadata)

\* both sets completed, the one called first executed last
C18_Witness ==
    /\ call.op = "set" /\ call.stage = "settled"
    /\ rival.op = "set" /\ rival.stage = "settled"
    /\ call.stmt.key = rival.stmt.key
    /\ call.entry # rival.entry
    /\ lastWrite[call.stmt.key].entry = call.entry
    /\ RowsOf(table, call.stmt.key) = {RowWritten(call.stmt.key, call.entry)}

\* the time at which the lifetime of a stored metadata object ends, or
\* MaxTime + 1 when it has no finite ttl
Expiry(m) ==
    IF Field(m, Ttl).t = "number" THEN Field(m, CreatedTime).n + Field(m, Ttl).n
    ELSE MaxTime + 1

\* C19: a get that follows a set of a truthy value yields the entry at any
\* time, whatever its createdTime and ttl, also when the lifetime has passed;
\* the passing of time changes no row; and a row changes only in a step that
\* executes a set or a delete on its storage key
C19_NoExpiry ==
    /\ [](ReadBack =>
            /\ DeliveredEntry
            /\ ValueOf(call.result.v) = ValueOf(call.saw.entry))
    /\ [][Tick => table' = table]_vars
    /\ [][\A k \in StorageKeys(OneTarget) :
            RowsOf(table', k) # RowsOf(table, k) =>
                /\ call' # call
                /\ call'.stmt.key = k
                /\ call'.stmt.sql \in {"insert or replace", "delete"}]_vars

\* an entry with ttl 0 read back after its lifetime has passed
C19_Witness ==
    /\ ReadBack
    /\ DeliveredEntry
    /\ Field(MetadataOf(call.result.v), Ttl) = Num(0)
    /\ Expiry(MetadataOf(call.result.v)) < now
    /\ call.stmt.key \in Keys(table)

\* a step in which the statement of a table helper is executed
CreateRuns ==
    /\ call'.op = "create"
    /\ call'.stage \in {"executed", "settled"}
    /\ call.stage \in {"idle", "issued", "settled"}
    /\ call' # call

CreateSettled == call.op = "create" /\ call.stage = "settled"

\* C20: after a table helper has succeeded the table exists; run on an open
\* database that has the table, a helper reports no error and leaves the table
\* and its rows as they were, so a second run changes nothing; a helper that
\* has succeeded hands over undefined
C20_CreateIdempotent ==
    /\ []((CreateSettled /\ call.error = Null) =>
            (exists /\ call.result.v = Undefined
                /\ call.result.how \in {"return", "resolve"}))
    /\ [][(CreateRuns /\ open) => (call'.error = Null /\ exists')]_vars
    /\ [][(CreateRuns /\ exists) => (exists' /\ table' = table)]_vars

\* a helper run on a table that held a row an adapter had set
C20_Witness ==
    /\ CreateSettled
    /\ call.error = Null
    /\ exists
    /\ \E k \in Keys(table) :
            /\ LastWriteOf(lastWrite, k).kind = "set"
            /\ RowsOf(table, k) = {RowWritten(k, lastWrite[k].entry)}


\* a set or delete whose statement the database refused, settled
WriteFailed ==
    /\ HandlerSettled
    /\ call.op \in {"set", "delete"}
    /\ call.error # Null
\* the step in which the database refuses the statement of a set or delete
WriteFails ==
    /\ call' # call
    /\ call'.op \in {"set", "delete"}
    /\ call.stage \in {"idle", "settled", "issued"}
    /\ call'.stage \in {"executed", "settled"}
    /\ call'.error # Null

\* the failure is the error of the driver, and neither the value nor
\* undefined is handed over in its place
C21_ErrorKept ==
    [](WriteFailed =>
        /\ call.result.v = call.error
        /\ call.result.v \in {ErrorValue("SQLITE_MISUSE"), ErrorValue("SQLITE_ERROR")}
        /\ call.result.how \in {"throw", "reject"}
        /\ call.settles <= 1)
\* the table is as it was before the call
C21_TableKept ==
    [][WriteFails => (table' = table /\ exists' = exists /\ lastWrite' = lastWrite)]_vars
\* thrown by the adapters of the synchronous drivers, a rejection from those
\* of the asynchronous ones
C21_Delivery ==
    [](WriteFailed =>
        call.result.how = IF driver \in AsyncDrivers THEN "reject" ELSE "throw")

\* C21: a set or delete whose statement fails (the handle closed, the table
\* missing) fails with the error of the driver, thrown by the better-sqlite3,
\* bun:sqlite and node:sqlite adapters and as the rejection of the promise by
\* the sqlite and sqlite3 adapters; set hands over no value; the table is as
\* it was before the call
C21_FailurePropagates == C21_ErrorKept /\ C21_TableKept /\ C21_Delivery

\* a set of the earlier better-sqlite3 adapter on a closed handle: rejected
C21_Witness ==
    /\ WriteFailed
    /\ driver = BetterSqlite3Async
    /\ call.op = "set"
    /\ ~open
    /\ call.result = Reject(ErrorValue("SQLITE_MISUSE"))


(***************************************************************************)
(* One call of the adapter of driver d carried through on the database db, *)
(* the caller awaiting it: the statement built, executed, and the outcome  *)
(* handed over as that adapter does.                                       *)
(***************************************************************************)
\* the call as the adapter of driver d settles it after its statement
SettledBy(d, c) ==
    IF d = "sqlite3" THEN Sqlite3CalledBack(c)
    ELSE IF d = "sqlite" THEN SqliteResumed(c)
    ELSE [c EXCEPT !.stage = "settled",
                   !.result = IF d \in SyncDrivers THEN Direct(AfterStatement(c))
                              ELSE ByPromise(AfterStatement(c)),
                   !.settles = IF d \in SyncDrivers THEN 0 ELSE 1]

StatementOf(op, key, keyPrefix, entry) ==
    CASE op = "get" -> GetStatement(key, keyPrefix)
      [] op = "set" -> SetStatement(key, keyPrefix, entry)
      [] op = "delete" -> DeleteStatement(key, keyPrefix)

\* the settled call and the database after it
RunCall(d, db, hist, op, key, keyPrefix, entry) ==
    LET stmt == StatementOf(op, key, keyPrefix, entry)
        done == DbStatement(db, stmt)
    IN  [db |-> done.db,
         call |-> SettledBy(d, ExecutedCall(StartedCall(op, key, keyPrefix, entry, stmt),
                                            done, db.table, hist))]

\* what an outcome is apart from the way it is handed over
Succeeded(result) == result.how \in {"return", "resolve"}
Outcome(result) == <<Succeeded(result), result.v>>

\* the inputs of one call of the table specification
CallInputs ==
    {<<"get", t, Undefined>> : t \in Targets}
    \cup {<<"set", t, e>> : t \in Targets, e \in SomeEntries}
    \cup {<<"delete", t, Undefined>> : t \in Targets}

DirectDeleteAll ==
    /\ driver \in Drivers
    /\ open
    /\ exists
    /\ table # EmptyTable
    /\ table' = EmptyTable
    /\ lastWrite' = [x \in DOMAIN lastWrite |->
                        [entry |-> Undefined, kind |-> "none",
                         wasSet |-> lastWrite[x].wasSet]]
    /\ UNCHANGED <<driver, adapterName, open, exists, created, call, rival, keyIn, keyOut, now>>

\* the shared-table specification: the adapters' calls, and rows inserted
\* and deleted through the database handle between and during them
NextShared ==
    \/ Calls(Targets, SomeEntries)
    \/ DbExecute
    \/ SqliteResume
    \/ Sqlite3Callback
    \/ \E k \in StorageKeys(Targets), r \in SomeRows :
            DirectInsert(k, r.value, r.metadata)
    \/ DirectDeleteAll

SpecShared == Init /\ [][NextShared]_vars

\* the step in which the database executes the statement of a get
GetExecutes ==
    /\ call' # call
    /\ call'.op = "get"
    /\ call.stage \in {"idle", "settled", "issued"}
    /\ call'.stage \in {"executed", "settled"}

\* C23: the row a get works on is the row the table holds for its storage
\* key when its statement is executed, whoever wrote or deleted it (this
\* adapter, another adapter on the table, or a statement run directly on the
\* database handle), and what the get hands over is made from that row alone
C23_NoMemory ==
    /\ [][GetExecutes =>
            /\ call'.error = Null
            /\ call'.row = DbSelect(table, buildCacheKey(call'.key, call'.keyPrefix))
            /\ table' = table]_vars
    /\ [](HandlerSettled /\ call.op = "get"
            => Outcome(call.result) = <<GetOutcome(call.row).ok, GetOutcome(call.row).v>>)

\* a key an adapter had set, deleted through the handle: the get finds no row
C23_Witness ==
    /\ HandlerSettled
    /\ call.op = "get"
    /\ LastWriteOf(lastWrite, call.stmt.key).wasSet
    /\ LastWriteOf(lastWrite, call.stmt.key).kind = "none"
    /\ ~call.row.found
    /\ call.result.v = Null


(***************************************************************************)
(* The naming specification: the table created, an adapter created with    *)
(* or without a name, and its calls.                                       *)
(***************************************************************************)
\* options.name: left out, null, the empty string, a name
NameOptions == {Undefined, Null, Str(<<>>), Str(<<"my-cache">>)}

NextName ==
    \/ \E d \in Drivers, n \in NameOptions : CacheAdapterNamed(d, n)
    \/ DirectCreateTable
    \/ Calls(OneTarget, TwoEntries)
    \/ DbExecute
    \/ SqliteResume
    \/ Sqlite3Callback

SpecName == InitBoot /\ [][NextName]_vars

\* the default name of each driver, as the claim lists them
NamedByDefault ==
    \/ driver \in {"better-sqlite3", BetterSqlite3Async}
            /\ adapterName' = Str(<<"better-sqlite3">>)
    \/ driver = "sqlite" /\ adapterName' = Str(<<"sqlite">>)
    \/ driver = "sqlite3" /\ adapterName' = Str(<<"sqlite3">>)
    \/ driver = "bun-sqlite" /\ adapterName' = Str(<<"bun-sqlite">>)
    \/ driver = "node-sqlite" /\ adapterName' = Str(<<"node-sqlite">>)

\* C24: an adapter created with a string as options.name, the empty string
\* included, has that name; one created without a name (options.name left
\* out or null) has the default name of its driver; and no step changes the
\* name of an adapter that has been created
C24_AdapterName ==
    /\ [][\A n \in NameOptions :
            (CacheAdapterNamed(driver, n) /\ created')
                => IF n.t = "string" THEN adapterName' = n ELSE NamedByDefault]_vars
    /\ [][created => (created' /\ adapterName' = adapterName)]_vars
    /\ [](~created => adapterName = Undefined)

\* an adapter named by the empty string has completed a call
C24_Witness ==
    /\ created
    /\ adapterName = Str(<<>>)
    /\ HandlerSettled


\* a step of a set call: started, its statement executed, or settled
SetActs == call' # call /\ call'.op = "set"
\* the storage key of the call after the step
KeyOfCall == buildCacheKey(call'.key, call'.keyPrefix)

\* C25: no step of a set, succeeding or failing, changes a row of another
\* storage key or the table's existence; the step that executes a successful
\* set leaves under its own key the one row it wrote, and a failed set
\* leaves the table as it was
C25_SetFrame ==
    /\ [][SetActs =>
            /\ \A k \in (Keys(table) \cup Keys(table')) \ {KeyOfCall} :
                    RowsOf(table', k) = RowsOf(table, k)
            /\ exists' = exists
            /\ open' = open]_vars
    /\ [][(SetActs /\ call.stage # "executed" /\ call'.stage \in {"executed", "settled"})
            => IF call'.error = Null
               THEN RowsOf(table', KeyOfCall) = {RowWritten(KeyOfCall, call'.entry)}
               ELSE table' = table]_vars

\* a set has replaced the row of its key beside the row of another key
C25_Witness ==
    /\ HandlerSettled
    /\ call.op = "set"
    /\ call.error = Null
    /\ call.existed
    /\ \E k \in Keys(table) : k # call.stmt.key


\* a set whose statement succeeded, and the metadata of the row it wrote
SetStored == SetSettled /\ call.error = Null /\ call.stmt.key \in Keys(table)
StoredMetadata == JSONparse(RowOf(table, call.stmt.key).metadata).v

\* the caller's entry object, its metadata and the ttl in it are after the
\* set what the caller passed
CallerKeeps(c) ==
    /\ c.passed = c.entry
    /\ Field(MetadataOf(c.passed), Ttl) = Field(MetadataOf(c.entry), Ttl)

\* C26 as stated: after a set the caller's entry is unchanged, and every
\* metadata field other than ttl is stored with the value the caller passed
C26_CopyStoredAsPassed ==
    /\ (call.op = "set" => CallerKeeps(call))
    /\ SetStored =>
            \A nm \in FieldNames(MetadataOf(call.entry)) \ {Ttl} :
                Field(StoredMetadata, nm) = Field(MetadataOf(call.entry), nm)

\* C26 amended: after a set, at every stage of the call and whether it
\* succeeds or not, the caller's entry is unchanged; every metadata field
\* other than ttl is stored as JSON keeps it: with the value the caller
\* passed, except that a field holding Infinity is stored as null
C26_CopyStored ==
    /\ (call.op = "set" => CallerKeeps(call))
    /\ SetStored =>
            \A nm \in FieldNames(MetadataOf(call.entry)) \ {Ttl} :
                Field(StoredMetadata, nm) = AsJson(Field(MetadataOf(call.entry), nm))

\* a set of metadata with ttl Infinity and swr 1: the row holds ttl null and
\* swr 1, the caller's metadata still holds ttl Infinity
C26_Witness ==
    /\ SetStored
    /\ Field(MetadataOf(call.passed), Ttl) = Infinity
    /\ Field(MetadataOf(call.passed), Swr) = Num(1)
    /\ Field(StoredMetadata, Ttl) = Null
    /\ Field(StoredMetadata, Swr) = Num(1)


\* the own-writes specification: one adapter and key, every entry, and no
\* write to the table but the adapter's set and delete
NextOwn ==
    \/ Calls(OneTarget, AllEntries)
    \/ DbExecute
    \/ SqliteResume
    \/ Sqlite3Callback

SpecOwn == Init /\ [][NextOwn]_vars

\* a row whose value is JSON text and whose metadata is the JSON text of an
\* object with a ttl that is null or a number
WellFormed(row) ==
    LET v == JSONparse(row.value)
        m == JSONparse(row.metadata)
    IN  /\ v.ok
        /\ m.ok
        /\ m.v.t = "object"
        /\ Ttl \in FieldNames(m.v)
        /\ Field(m.v, Ttl).t \in {"null", "number"}

\* C27: on a table written only by the adapter's set and delete, every row
\* is well formed, and no get fails: none throws or rejects, with a
\* SyntaxError or otherwise
C27_RowsWellFormed ==
    /\ \A row \in table : WellFormed(row)
    /\ GetSettled => (call.error = Null /\ Succeeded(call.result))
    /\ call.op = "get" /\ call.row.found => WellFormed(call.row)

\* a get has returned the entry of a row whose stored ttl is null
C27_Witness ==
    /\ GetSettled
    /\ DeliveredEntry
    /\ call.row.found
    /\ Field(JSONparse(call.row.metadata).v, Ttl) = Null
    /\ table # EmptyTable


(***************************************************************************)
(* The re-store specification: the entry a get has returned is passed to   *)
(* set again, on the same adapter and key.                                 *)
(***************************************************************************)
\* entries of a truthy value with every ttl and swr
RestoreEntries ==
    {Entry(Str(<<"v">>), Metadata(ttl, swr)) : ttl \in Lifetimes, swr \in Lifetimes}

\* set(k, e') where e' is the entry the get just before has returned
SetReadBack ==
    /\ GetSettled
    /\ DeliveredEntry
    /\ Field(MetadataOf(call.result.v), Ttl).t = "number"
            => Field(MetadataOf(call.result.v), Ttl).n <= MaxTtl
    /\ \/ BetterSqlite3Set(call.key, call.keyPrefix, call.result.v)
       \/ BetterSqlite3AsyncSet(call.key, call.keyPrefix, call.result.v)
       \/ BunSqliteSet(call.key, call.keyPrefix, call.result.v)
       \/ NodeSqliteSet(call.key, call.keyPrefix, call.result.v)
       \/ SqliteSet(call.key, call.keyPrefix, call.result.v)
       \/ Sqlite3Set(call.key, call.keyPrefix, call.result.v)

NextRestore ==
    \/ Calls(OneTarget, RestoreEntries)
    \/ SetReadBack
    \/ DbExecute
    \/ SqliteResume
    \/ Sqlite3Callback

SpecRestore == Init /\ [][NextRestore]_vars

\* the step in which the database executes the statement of a set
SetExecutes ==
    /\ call' # call
    /\ call'.op = "set"
    /\ call.stage # "executed"
    /\ call'.stage \in {"executed", "settled"}
\* the step stores again what a get reads from the row the key holds, a row
\* that a set of the adapter had written
StoresReadBack ==
    /\ SetExecutes
    /\ call'.error = Null
    /\ LastWriteOf(lastWrite, KeyOfCall).kind = "set"
    /\ call'.entry = GetOutcome(DbSelect(table, KeyOfCall)).v

\* C28: a set of the entry that get returns for a row written by set leaves
\* the row as it was: value, metadata, ttl and swr
C28_RestoreStable == [][StoresReadBack => table' = table]_vars

\* the stored ttl has grown to 3 although every entry passed by a caller has
\* ttl and swr of at most 1 each
C28_Witness ==
    /\ SetSettled
    /\ call.error = Null
    /\ call.stmt.key \in Keys(table)
    /\ Field(JSONparse(RowOf(table, call.stmt.key).metadata).v, Ttl) = Num(3)
    /\ Field(JSONparse(RowOf(table, call.stmt.key).metadata).v, Swr) = Num(1)


\* the step in which the database executes the statement of a handler
HandlerExecutes ==
    /\ call' # call
    /\ call'.op \in {"get", "set", "delete"}
    /\ call.stage # "executed"
    /\ call'.stage \in {"executed", "settled"}

\* a better-sqlite3 or node:sqlite adapter exists only if the table existed
\* when it was created: without the table its creation fails
C29_PreparedAtCreation ==
    [](created /\ driver \in {"better-sqlite3", BetterSqlite3Async, "node-sqlite"}
            => exists)
\* creating an adapter, or failing to, changes nothing in the database
C29_CreationReadsOnly ==
    [][(created' # created \/ adapterName' # adapterName)
            => UNCHANGED <<open, exists, table, call, lastWrite>>]_vars
\* handlers run only on a created adapter; on an open handle their statement
\* fails exactly while the table is missing, whichever of adapter and table
\* came first
C29_WorksOnceCreated ==
    [][HandlerExecutes =>
            /\ created
            /\ open => (call'.error = Null) = exists]_vars

\* C29: a better-sqlite3 or node:sqlite adapter cannot be created while the
\* table is missing; creating any adapter leaves the database unchanged;
\* and an adapter that was created, before or after the table, works once the
\* table exists
C29_CreationOrder ==
    C29_PreparedAtCreation /\ C29_CreationReadsOnly /\ C29_WorksOnceCreated

\* the earlier better-sqlite3 adapter created on a database without the table
C29_Witness ==
    /\ driver = BetterSqlite3Async
    /\ created
    /\ ~exists
    /\ adapterName = Str(<<"better-sqlite3">>)


\* a step of a get call: its start, the execution of its statement, its
\* settling
GetActs == call' # call /\ call'.op = "get"

\* the row a settled get read is still the row of its storage key
RowKept ==
    /\ call.row.found
    /\ Row(buildCacheKey(call.key, call.keyPrefix), call.row.value,
           call.row.metadata) \in table

\* C30: no step of a get changes the database, whatever the get ends with:
\* the rows of the table, the table itself and the handle are after the step
\* what they were before it
C30_GetReadOnly ==
    [][GetActs => UNCHANGED <<open, exists, table>>]_vars

\* a get that answered a row with a falsy value by a cache miss, the row
\* still in the table
C30_Witness ==
    /\ GetSettled
    /\ RowKept
    /\ ~BadJson(call.row)
    /\ Falsy(JSONparse(call.row.value).v)
    /\ call.result.how \in {"return", "resolve"}
    /\ call.result.v = Null

====
